---------------------------- MODULE Spec2Model ----------------------------
(***************************************************************************)
(* A model of redshift-gtk's status icon (src/redshift-gtk/statusicon.py): *)
(* the RedshiftStatusIcon object that supervises one redshift child        *)
(* process, reassembles the child's stdout and stderr into lines, decodes  *)
(* "Key: Value" lines into the recorded state, relays toggle requests as   *)
(* SIGUSR1, keeps one suspend timer, and classifies the child's exit.      *)
(*                                                                         *)
(* Text is modelled by TLA+ strings: Len, \o and SubSeq act on them as on  *)
(* sequences of characters.  The child, the kernel's pipes and signals and *)
(* the GLib main loop are the environment; each callback of the class is   *)
(* one action.                                                             *)
(***************************************************************************)
EXTENDS Integers, Sequences, FiniteSets, TLC

VARIABLES
    \* ---- RedshiftStatusIcon fields
    status,          \* self._status
    temperature,     \* self._temperature
    period,          \* self._period
    location,        \* self._location
    suspend_timer,   \* self.suspend_timer: 0 models None, else a GLib source id
    input_buffer,    \* self.input_buffer.buf
    error_buffer,    \* self.error_buffer.buf
    errors,          \* self.errors
    toggle_active,   \* self.toggle_item's check state (Gtk.CheckMenuItem)
    \* ---- the supervising process
    pc,              \* where run() is: "init", "main", "termwait", "waitpid", "done"
    exitCode,        \* the exit status of the supervising process (read when pc = "done")
    report,          \* text of the error dialogs shown, in order (<<>>: none shown)
    \* ---- GLib main context
    timers,          \* pending timeout sources: records [id, deadline]
    next_id,         \* next source id GLib hands out
    now,             \* monotonic time, seconds
    \* ---- the child process and the kernel
    wstate,          \* "running", "zombie" (exited, not waited for), "reaped"
    wstatus,         \* wait status of the exited child
    wEnabled,        \* the child's own enabled state
    usr1,            \* SIGUSR1 sent to the child and not yet handled by it
    sigint,          \* SIGINT sent to the child and not yet handled by it
    stdoutPipe,      \* bytes written to stdout and not yet read
    stderrPipe,      \* bytes written to stderr and not yet read
    \* ---- history (read by the properties only)
    sent,            \* number of SIGUSR1 the status icon has sent
    stdoutFed,       \* all bytes child_data_cb has read from stdout
    stderrFed,       \* all bytes child_data_cb has read from stderr
    lines,           \* lines handed to child_stdout_line_cb, in order
    errWritten,      \* all bytes the child has written to stderr
    outCount,        \* lines the child has written to stdout unprompted
    fired,           \* ids of the timeout sources that have fired
    suspends,        \* the suspend_cb calls so far: <<time, minutes, source id>>
    exitSeen,        \* the wait statuses child_cb has been called with
    sigterms,        \* number of SIGTERM/SIGINT the supervising process took
    raised,          \* exceptions that left a callback: <<callback, exception>>
    eof,             \* streams on which a read has returned zero bytes
    relay,           \* SIGUSR1 the supervising process got, and those it passed on
    last             \* the most recent step: its handler and a detail of it

vars == <<status, temperature, period, location, suspend_timer, input_buffer,
          error_buffer, errors, toggle_active, pc, exitCode, report, timers,
          next_id, now, wstate, wstatus, wEnabled, usr1, sigint, stdoutPipe,
          stderrPipe, sent, stdoutFed, stderrFed, lines, errWritten, outCount,
          fired, suspends, exitSeen, sigterms, raised, eof, relay, last>>

---------------------------------------------------------------------------
(* Bounds of the model. *)

MaxOut == 2          \* lines the child writes to stdout unprompted
MaxErr == 3          \* bytes the child writes to stderr
MaxSent == 2         \* SIGUSR1 the status icon sends
MaxTimers == 2       \* timeout sources created
MaxTicks == 2        \* clock steps
MaxRelay == 2        \* SIGUSR1 sent to the supervising process

(* Constants of the program. *)

ReadSize == 256      \* os.read(f, 256)
TickSeconds == 1800  \* granularity of the model's clock: the shortest suspend

NL == "\n"

Min(a, b) == IF a <= b THEN a ELSE b

Ch(s, i) == SubSeq(s, i, i)

Drop(s, k) == SubSeq(s, k + 1, Len(s))

Take(s, k) == SubSeq(s, 1, k)

---------------------------------------------------------------------------
(* Text functions of the Python runtime, as the code uses them. *)

RECURSIVE FindFrom(_, _, _)
\* index of the first occurrence of the one-character string c in s at or
\* after position i, 0 when there is none
FindFrom(s, c, i) ==
    IF i > Len(s) THEN 0
    ELSE IF Ch(s, i) = c THEN i
    ELSE FindFrom(s, c, i + 1)

\* str.partition('\n'): index of the first newline, 0 when there is none
FindNL(s) == FindFrom(s, NL, 1)

\* characters matched by \w at the protocol's alphabet (ASCII)
WordChars ==
    { "a", "b", "c", "d", "e", "f", "g", "h", "i", "j", "k", "l", "m",
      "n", "o", "p", "q", "r", "s", "t", "u", "v", "w", "x", "y", "z",
      "A", "B", "C", "D", "E", "F", "G", "H", "I", "J", "K", "L", "M",
      "N", "O", "P", "Q", "R", "S", "T", "U", "V", "W", "X", "Y", "Z",
      "0", "1", "2", "3", "4", "5", "6", "7", "8", "9", "_" }

\* the class [\w ]
KeyChars == WordChars \cup { " " }

RECURSIVE KeyRun(_, _)
\* the number of characters of [\w ] the line has from position i on
KeyRun(line, i) ==
    IF i <= Len(line) /\ Ch(line, i) \in KeyChars THEN 1 + KeyRun(line, i + 1)
    ELSE 0

\* re.match(r'([\w ]+): (.+)', line): the length of group 1, 0 when the line
\* does not match.  The greedy [\w ]+ takes the whole run of key characters
\* the line starts with; a shorter key is followed by a key character, never
\* by the colon, so backtracking finds no other match.  '.' matches any
\* character but a newline.
MatchKeyLen(line) ==
    LET k == KeyRun(line, 1)
    IN  IF /\ k >= 1
           /\ Len(line) >= k + 3
           /\ SubSeq(line, k + 1, k + 2) = ": "
           /\ Ch(line, k + 3) # NL
        THEN k ELSE 0

\* '.+' is greedy and stops before the first newline
MatchValue(line, k) ==
    LET rest == Drop(line, k + 2)
        n == FindNL(rest)
    IN  IF n = 0 THEN rest ELSE Take(rest, n - 1)

RECURSIVE RStripK(_)
\* value.rstrip('K')
RStripK(v) ==
    IF Len(v) > 0 /\ Ch(v, Len(v)) = "K" THEN RStripK(Take(v, Len(v) - 1)) ELSE v

DigitVal(c) ==
    CASE c = "0" -> 0 [] c = "1" -> 1 [] c = "2" -> 2 [] c = "3" -> 3
      [] c = "4" -> 4 [] c = "5" -> 5 [] c = "6" -> 6 [] c = "7" -> 7
      [] c = "8" -> 8 [] c = "9" -> 9

RECURSIVE ParseInt(_)
\* int(s, 10) on a string of decimal digits
ParseInt(s) ==
    IF Len(s) = 0 THEN 0
    ELSE 10 * ParseInt(Take(s, Len(s) - 1)) + DigitVal(Ch(s, Len(s)))

RECURSIVE FindSepFrom(_, _)
\* index of the first occurrence of ', ' in s at or after i, 0 when none
FindSepFrom(s, i) ==
    IF i + 1 > Len(s) THEN 0
    ELSE IF SubSeq(s, i, i + 1) = ", " THEN i
    ELSE FindSepFrom(s, i + 1)

FindSep(s) == FindSepFrom(s, 1)

RECURSIVE SplitCommaSpace(_)
\* value.split(', '): the list of the pieces between the separators
SplitCommaSpace(s) ==
    LET i == FindSep(s)
    IN  IF i = 0 THEN << s >>
        ELSE << Take(s, i - 1) >> \o SplitCommaSpace(Drop(s, i + 1))

(* Bytes and text.  A pipe carries bytes, the buffers hold text, and both   *)
(* are strings here.  An ASCII byte and the character it encodes are the    *)
(* same character of the string.  Three characters are set apart to stand   *)
(* for what is not ASCII; the child's ASCII output does not use them.       *)

Byte_C3 == "@"       \* the byte 0xC3: the first of the two bytes of U+00E9

Byte_A9 == "%"       \* the byte 0xA9: the second of them, a continuation byte

Char_E9 == "&"       \* the character U+00E9

RECURSIVE NonAsciiFrom(_, _)
\* index of the first byte at or after i that is not ASCII, 0 when none
NonAsciiFrom(b, i) ==
    IF i > Len(b) THEN 0
    ELSE IF Ch(b, i) \in { Byte_C3, Byte_A9 } THEN i
    ELSE NonAsciiFrom(b, i + 1)

RECURSIVE decode(_)
\* bytes.decode('utf-8'), errors='strict': the text, or ok = FALSE where
\* Python raises UnicodeDecodeError (a continuation byte with no lead byte,
\* a lead byte not followed by a continuation byte, or the end of the data
\* in the middle of a character)
decode(b) ==
    LET j == NonAsciiFrom(b, 1)
    IN  IF j = 0 THEN [ ok |-> TRUE, text |-> b ]
        ELSE IF Ch(b, j) = Byte_C3 /\ j < Len(b) /\ Ch(b, j + 1) = Byte_A9
        THEN LET r == decode(Drop(b, j + 1))
             IN  [ ok |-> r.ok, text |-> Take(b, j - 1) \o Char_E9 \o r.text ]
        ELSE [ ok |-> FALSE, text |-> "" ]

---------------------------------------------------------------------------
(* The status icon's methods.  Each takes and returns the record of the     *)
(* fields a callback can change, so that a callback that calls another is   *)
(* the composition of the two.                                              *)

\* the fields as they are in the current state
Self ==
    [ status |-> status, temperature |-> temperature, period |-> period,
      location |-> location, suspend_timer |-> suspend_timer,
      toggle_active |-> toggle_active, errors |-> errors,
      timers |-> timers, usr1 |-> usr1, sent |-> sent, lines |-> lines ]

is_enabled(s) == s.status

\* os.kill(self.process[0], signal.SIGUSR1): a signal to a child that has
\* exited and is not yet waited for is accepted and has no effect
child_toggle_status(s) ==
    [ s EXCEPT !.sent = @ + 1,
               !.usr1 = IF wstate = "running" THEN @ + 1 ELSE @ ]

\* GLib.source_remove(id) then self.suspend_timer = None
remove_suspend_timer(s) ==
    IF s.suspend_timer # 0
    THEN [ s EXCEPT !.timers = { t \in @ : t.id # s.suspend_timer },
                    !.suspend_timer = 0 ]
    ELSE s

\* the 'activate' handler of the check menu item; the item's own check state
\* has been flipped by Gtk before the handler runs
toggle_item_cb(s) ==
    IF is_enabled(s) # s.toggle_active
    THEN child_toggle_status(remove_suspend_timer(s))
    ELSE s

\* Gtk.CheckMenuItem.set_active(v): a change of the check state activates the
\* item, which runs toggle_item_cb
set_active(s, v) ==
    IF s.toggle_active # v
    THEN toggle_item_cb([ s EXCEPT !.toggle_active = v ])
    ELSE s

\* change_status that sets the check item before it records the state
change_status_late(s, v) == [ set_active(s, v) EXCEPT !.status = v ]

change_status(s, v) == set_active([ s EXCEPT !.status = v ], is_enabled([ s EXCEPT !.status = v ]))

change_temperature(s, v) == [ s EXCEPT !.temperature = v ]

change_period(s, v) == [ s EXCEPT !.period = v ]

change_location(s, v) == [ s EXCEPT !.location = v ]

\* child_key_change_cb with the Status test the wrong way round
child_key_change_cb_inverted(s, key, value) ==
    IF key = "Status" THEN change_status(s, value = "Disabled")
    ELSE IF key = "Color temperature"
         THEN change_temperature(s, ParseInt(RStripK(value)))
    ELSE IF key = "Period" THEN change_period(s, value)
    ELSE IF key = "Location" THEN change_location(s, SplitCommaSpace(value))
    ELSE s

\* child_key_change_cb with a final 'else' for the last 'elif'
child_key_change_cb_else(s, key, value) ==
    IF key = "Status" THEN change_status(s, value # "Disabled")
    ELSE IF key = "Color temperature"
         THEN change_temperature(s, ParseInt(RStripK(value)))
    ELSE IF key = "Period" THEN change_period(s, value)
    ELSE change_location(s, SplitCommaSpace(value))

child_key_change_cb(s, key, value) ==
    IF key = "Status" THEN change_status(s, value # "Disabled")
    ELSE IF key = "Color temperature"
         THEN change_temperature(s, ParseInt(RStripK(value)))
    ELSE IF key = "Period" THEN change_period(s, value)
    ELSE IF key = "Location" THEN change_location(s, SplitCommaSpace(value))
    ELSE s

child_stdout_line_cb(s, line) ==
    LET t == [ s EXCEPT !.lines = Append(@, line) ]
        k == MatchKeyLen(line)
    IN  IF line # "" /\ k > 0
        THEN child_key_change_cb(t, Take(line, k), MatchValue(line, k))
        ELSE t

RECURSIVE SplitLoop_allStdout(_, _, _)
\* the loop of child_data_cb without its 'if stdout': every line goes to
\* child_stdout_line_cb
SplitLoop_allStdout(isStdout, buf, s) ==
    LET i == FindNL(buf)
    IN  IF i = 0 THEN [ buf |-> buf, s |-> s ]
        ELSE SplitLoop_allStdout(isStdout, Drop(buf, i),
                                 child_stdout_line_cb(s, Take(buf, i - 1)))

RECURSIVE SplitLoop(_, _, _)
\* the 'while True' of child_data_cb: [buf, s] once no newline is left
SplitLoop(isStdout, buf, s) ==
    LET i == FindNL(buf)
        first == Take(buf, i - 1)
        rest == Drop(buf, i)
    IN  IF i = 0 THEN [ buf |-> buf, s |-> s ]
        ELSE SplitLoop(isStdout, rest,
                       IF isStdout THEN child_stdout_line_cb(s, first)
                       ELSE [ s EXCEPT !.errors = @ \o first \o NL ])

\* child_data_cb with 'ib.buf = os.read(...)' for 'ib.buf += os.read(...)'
child_data_cb_forgets(isStdout, buf, s, data) ==
    SplitLoop(isStdout, decode(data).text, s)

\* child_data_cb's effect on a buffer and the fields, given the bytes read,
\* when they decode
child_data_cb(isStdout, buf, s, data) ==
    SplitLoop(isStdout, buf \o decode(data).text, s)

\* spawn_check_exit_status looking at the exit code alone
ExitedCleanly_codeOnly(ws) == (ws \div 256) % 256 = 0

\* GLib.spawn_check_exit_status(status) raises no error: the child exited
\* (was not killed by a signal) with exit code 0
ExitedCleanly(ws) == ws % 128 = 0 /\ (ws \div 256) % 256 = 0

\* the exit status of a process that calls sys.exit(code)
SysExitCode(code) == code % 256

---------------------------------------------------------------------------
(* The state after start_child_process has returned (line 70): the child    *)
(* runs, the fields hold the values __init__ gives them, and the rest of    *)
(* __init__ and the main loop are still to come.                            *)

Spawned ==
    /\ status = FALSE
    /\ temperature = 0
    /\ period = "Unknown"
    /\ location = << "0.0", "0.0" >>
    /\ suspend_timer = 0
    /\ input_buffer = ""
    /\ error_buffer = ""
    /\ errors = ""
    /\ toggle_active = FALSE
    /\ exitCode = 0
    /\ report = << >>
    /\ timers = {}
    /\ next_id = 1
    /\ now = 0
    /\ wstate = "running"
    /\ wstatus = 0
    /\ wEnabled = TRUE
    /\ usr1 = 0
    /\ sigint = FALSE
    /\ stdoutPipe = ""
    /\ stderrPipe = ""
    /\ sent = 0
    /\ stdoutFed = ""
    /\ stderrFed = ""
    /\ lines = << >>
    /\ errWritten = ""
    /\ outCount = 0
    /\ fired = {}
    /\ suspends = << >>
    /\ exitSeen = << >>
    /\ sigterms = 0
    /\ raised = << >>
    /\ eof = {}
    /\ relay = [ recv |-> 0, fwd |-> 0 ]
    /\ last = [ op |-> "spawn", n |-> 0 ]

Init == Spawned /\ pc = "init"

\* the fields of record s become the next state's
Commit(s) ==
    /\ status' = s.status
    /\ temperature' = s.temperature
    /\ period' = s.period
    /\ location' = s.location
    /\ suspend_timer' = s.suspend_timer
    /\ toggle_active' = s.toggle_active
    /\ errors' = s.errors
    /\ timers' = s.timers
    /\ usr1' = s.usr1
    /\ sent' = s.sent
    /\ lines' = s.lines

fieldVars == << status, temperature, period, location, suspend_timer,
                toggle_active, errors, timers, usr1, sent, lines >>

bufVars == << input_buffer, error_buffer, stdoutFed, stderrFed >>

procVars == << pc, exitCode, report >>

childVars == << wstate, wstatus, wEnabled, sigint >>

histVars == << raised, eof, relay >>

---------------------------------------------------------------------------
(* The child: redshift -v.                                                  *)

StatusLine(e) == IF e THEN "Status: Enabled" ELSE "Status: Disabled"

\* lines of the child's verbose output: the four keys the status icon knows
\* (redshift prints the temperature as %uK and the location as two numbers),
\* a key it does not know, and lines that are no 'Key: Value' at all
ProtocolLines ==
    { "Status: Enabled", "Status: Disabled", "Color temperature: 4500K",
      "Period: Night", "Period: Daytime", "Location: 51.50, -0.12",
      "Brightness: 1.00", "garbage line without colon", "" }

\* short lines of arbitrary bytes
RawLines == { "", "a", "b:" }

\* lines of a child that prints text that is not ASCII: a line with the two
\* bytes of U+00E9, and a line with a byte that is no UTF-8 at all
EncodedLines == { "ok", "Period: caf" \o Byte_C3 \o Byte_A9, Byte_A9 }

ErrBytes == { "e", "r", NL }

\* exit code 0, exit code 1, killed by SIGKILL
ExitStatuses == { 0, 256, 9 }

ChildPrint(l) ==
    /\ wstate = "running"
    /\ outCount < MaxOut
    /\ stdoutPipe' = stdoutPipe \o l \o NL
    /\ outCount' = outCount + 1
    /\ last' = [ op |-> "ChildPrint", n |-> 0 ]
    /\ UNCHANGED histVars
    /\ UNCHANGED << fieldVars, bufVars, procVars, childVars, next_id, now,
                    stderrPipe, errWritten, fired, suspends, exitSeen,
                    sigterms >>

ChildPrintErr(b) ==
    /\ wstate = "running"
    /\ Len(errWritten) < MaxErr
    /\ stderrPipe' = stderrPipe \o b
    /\ errWritten' = errWritten \o b
    /\ last' = [ op |-> "ChildPrintErr", n |-> 0 ]
    /\ UNCHANGED histVars
    /\ UNCHANGED << fieldVars, bufVars, procVars, childVars, next_id, now,
                    stdoutPipe, outCount, fired, suspends, exitSeen,
                    sigterms >>

\* the child takes a SIGUSR1: it flips its state and reports it
ChildHandleUsr1 ==
    /\ wstate = "running"
    /\ usr1 > 0
    /\ usr1' = usr1 - 1
    /\ wEnabled' = ~wEnabled
    /\ stdoutPipe' = stdoutPipe \o StatusLine(~wEnabled) \o NL
    /\ last' = [ op |-> "ChildHandleUsr1", n |-> 0 ]
    /\ UNCHANGED histVars
    /\ UNCHANGED << status, temperature, period, location, suspend_timer,
                    toggle_active, errors, timers, sent, lines, bufVars,
                    procVars, wstate, wstatus, sigint, next_id, now,
                    stderrPipe, errWritten, outCount, fired, suspends, exitSeen,
                    sigterms >>

\* the child ends, of its own accord or on the SIGINT sent to it
ChildExit(ws) ==
    /\ wstate = "running"
    /\ ws \in ExitStatuses
    /\ wstate' = "zombie"
    /\ wstatus' = ws
    /\ sigint' = FALSE
    /\ last' = [ op |-> "ChildExit", n |-> ws ]
    /\ UNCHANGED histVars
    /\ UNCHANGED << fieldVars, bufVars, procVars, wEnabled, next_id, now,
                    stdoutPipe, stderrPipe, errWritten, outCount, fired,
                    suspends, exitSeen,
                    sigterms >>

---------------------------------------------------------------------------
(* The supervising process: run(), the rest of __init__, and the callbacks  *)
(* the main loop dispatches.                                                *)

\* lines 72-201 and 422-424: the menu, the buffers, the watches; Gtk.main()
\* is entered
InitDone ==
    /\ pc = "init"
    /\ pc' = "main"
    /\ last' = [ op |-> "InitDone", n |-> 0 ]
    /\ UNCHANGED histVars
    /\ UNCHANGED << fieldVars, bufVars, exitCode, report, childVars, next_id,
                    now, stdoutPipe, stderrPipe, errWritten, outCount, fired,
                    suspends, exitSeen,
                    sigterms >>

\* sizes os.read(f, 256) can return on stdout: the child's stdio decides how
\* much of what it has printed is in the pipe while it runs; once it has
\* exited all of it is
StdoutReadSizes ==
    IF wstate = "running" THEN 1..Min(Len(stdoutPipe), ReadSize)
    ELSE { Min(Len(stdoutPipe), ReadSize) }

\* the size of a read on stdout when the child flushes after each line and
\* the pipe holds all it has printed
StdoutFlushed == Min(Len(stdoutPipe), ReadSize)

\* __init__ with no fcntl call at all
NonBlocking_none == {}

\* the streams whose descriptor has O_NONBLOCK set: __init__ sets it on
\* self.process[2], the child's stdout, and on no other
NonBlocking == IF pc = "init" THEN {} ELSE { "stdout" }

\* os.read on a stream would wait: the descriptor is in blocking mode, the
\* pipe is empty and its write end is open
Blocks(stream, pipe) ==
    stream \notin NonBlocking /\ pipe = "" /\ wstate = "running"

\* the io watch of a stream is installed.  A callback that raises returns
\* nothing to GLib, which takes that for False and removes the source.
Watching(stream) == \A i \in DOMAIN raised : raised[i][1] # stream

\* child_data_cb on the stdout watch, os.read returning k bytes
ChildDataCbOut(k) ==
    /\ pc = "main"
    /\ Watching("stdout")
    /\ stdoutPipe # ""
    /\ k \in StdoutReadSizes
    /\ LET data == Take(stdoutPipe, k)
           r == child_data_cb(TRUE, input_buffer, Self, data)
       IN  /\ IF decode(data).ok
              THEN /\ Commit(r.s)
                   /\ input_buffer' = r.buf
                   /\ UNCHANGED raised
              ELSE /\ raised' = Append(raised, << "stdout", "UnicodeDecodeError" >>)
                   /\ UNCHANGED << fieldVars, input_buffer >>
           /\ stdoutPipe' = Drop(stdoutPipe, k)
           /\ stdoutFed' = stdoutFed \o data
           /\ last' = [ op |-> "child_data_cb",
                        n |-> IF ~decode(data).ok THEN 2
                              ELSE IF input_buffer # "" /\ FindNL(data) > 0
                              THEN 1 ELSE 0 ]
    /\ UNCHANGED << eof, relay >>
    /\ UNCHANGED << error_buffer, stderrFed, procVars, childVars, next_id,
                    now, stderrPipe, errWritten, outCount, fired, suspends, exitSeen,
                    sigterms >>

\* child_data_cb on the stderr watch; the child writes stderr unbuffered, so
\* a read returns what has been written, up to 256 bytes
ChildDataCbErr ==
    /\ pc = "main"
    /\ Watching("stderr")
    /\ stderrPipe # ""
    /\ LET k == Min(Len(stderrPipe), ReadSize)
           data == Take(stderrPipe, k)
           r == child_data_cb(FALSE, error_buffer, Self, data)
       IN  /\ IF decode(data).ok
              THEN /\ Commit(r.s)
                   /\ error_buffer' = r.buf
                   /\ UNCHANGED raised
              ELSE /\ raised' = Append(raised, << "stderr", "UnicodeDecodeError" >>)
                   /\ UNCHANGED << fieldVars, error_buffer >>
           /\ stderrPipe' = Drop(stderrPipe, k)
           /\ stderrFed' = stderrFed \o data
           /\ last' = [ op |-> "child_data_cb_err",
                        n |-> IF ~decode(data).ok THEN 2
                              ELSE IF error_buffer # "" /\ FindNL(data) > 0
                              THEN 1 ELSE 0 ]
    /\ UNCHANGED << eof, relay >>
    /\ UNCHANGED << input_buffer, stdoutFed, procVars, childVars, next_id,
                    now, stdoutPipe, errWritten, outCount, fired, suspends, exitSeen,
                    sigterms >>

\* a stream is at its end: the child, the one process with the write end of
\* the pipe, has exited, and all it wrote has been read
AtEof(pipe) == wstate # "running" /\ pipe = ""

\* child_data_cb on the stdout watch of a stream at its end, on a system
\* whose poll reports end of file as readable (POSIX allows POLLIN with
\* POLLHUP; Linux reports POLLHUP alone, for which a G_IO_IN watch is not
\* dispatched): os.read returns no bytes, no line is found, and the callback
\* returns True, which keeps the watch
ChildDataCbOutEof ==
    /\ pc = "main"
    /\ Watching("stdout")
    /\ AtEof(stdoutPipe)
    /\ Commit(child_data_cb(TRUE, input_buffer, Self, "").s)
    /\ input_buffer' = child_data_cb(TRUE, input_buffer, Self, "").buf
    /\ eof' = eof \cup { "stdout" }
    /\ last' = [ op |-> "child_data_cb_eof",
                 n |-> IF "stdout" \in eof THEN 1 ELSE 0 ]
    /\ UNCHANGED << raised, relay >>
    /\ UNCHANGED << error_buffer, stdoutFed, stderrFed, procVars, childVars,
                    next_id, now, stdoutPipe, stderrPipe, errWritten,
                    outCount, fired, suspends, exitSeen, sigterms >>

\* the same on the stderr watch
ChildDataCbErrEof ==
    /\ pc = "main"
    /\ Watching("stderr")
    /\ AtEof(stderrPipe)
    /\ Commit(child_data_cb(FALSE, error_buffer, Self, "").s)
    /\ error_buffer' = child_data_cb(FALSE, error_buffer, Self, "").buf
    /\ eof' = eof \cup { "stderr" }
    /\ last' = [ op |-> "child_data_cb_err_eof",
                 n |-> IF "stderr" \in eof THEN 1 ELSE 0 ]
    /\ UNCHANGED << raised, relay >>
    /\ UNCHANGED << input_buffer, stdoutFed, stderrFed, procVars, childVars,
                    next_id, now, stdoutPipe, stderrPipe, errWritten,
                    outCount, fired, suspends, exitSeen, sigterms >>

RECURSIVE ReadAll(_)
\* 'while True: buf = os.read(f, 256).decode('utf-8') ... if buf == "":
\* break': the text of the reads, joined, and what is left in the pipe; ok is
\* FALSE when a read's bytes do not decode, which ends the loop
ReadAll(pipe) ==
    LET k == Min(Len(pipe), ReadSize)
        d == decode(Take(pipe, k))
        r == ReadAll(Drop(pipe, k))
    IN  IF pipe = "" THEN [ ok |-> TRUE, text |-> "", rest |-> "" ]
        ELSE IF ~d.ok THEN [ ok |-> FALSE, text |-> "", rest |-> Drop(pipe, k) ]
        ELSE [ ok |-> r.ok, text |-> d.text \o r.text, rest |-> r.rest ]

\* the text child_cb gives the error dialog
ErrorMarkup(e) == "<b>Failed to run Redshift</b>\n<i>" \o e \o "</i>"

\* self.errors after child_cb has emptied stderr
ErrorsAfterDrain == errors \o ReadAll(stderrPipe).text

\* child_cb: the child watch has waited for the child; what is left in the
\* pipes is read, stdout first, and the exit status decides between
\* main_quit and the error dialog followed by sys.exit(-1).  A read whose
\* bytes do not decode raises out of child_cb: nothing of the rest runs and
\* the main loop goes on.
ChildCb ==
    /\ pc = "main"
    /\ wstate = "zombie"
    /\ wstate' = "reaped"
    /\ LET out == ReadAll(stdoutPipe)
           err == ReadAll(stderrPipe)
       IN  /\ stdoutPipe' = out.rest
           /\ IF ~out.ok
              THEN /\ raised' = Append(raised, << "child_cb", "UnicodeDecodeError" >>)
                   /\ UNCHANGED << stderrPipe, errors, pc, exitCode, report >>
              ELSE /\ stderrPipe' = err.rest
                   /\ errors' = ErrorsAfterDrain
                   /\ IF ~err.ok
                      THEN /\ raised' = Append(raised,
                                               << "child_cb", "UnicodeDecodeError" >>)
                           /\ UNCHANGED << pc, exitCode, report >>
                      ELSE /\ UNCHANGED raised
                           /\ IF ExitedCleanly(wstatus)
                              THEN /\ pc' = "termwait"
                                   /\ UNCHANGED << exitCode, report >>
                              ELSE /\ report' = Append(report,
                                                       ErrorMarkup(ErrorsAfterDrain))
                                   /\ exitCode' = SysExitCode(-1)
                                   /\ pc' = "done"
    /\ eof' = eof \cup (IF ~ReadAll(stdoutPipe).ok THEN {}
                         ELSE IF ~ReadAll(stderrPipe).ok THEN { "stdout" }
                         ELSE { "stdout", "stderr" })
    /\ exitSeen' = Append(exitSeen, wstatus)
    /\ last' = [ op |-> "child_cb", n |-> wstatus ]
    /\ UNCHANGED relay
    /\ UNCHANGED << status, temperature, period, location, suspend_timer,
                    toggle_active, timers, usr1, sent, lines, bufVars,
                    wstatus, wEnabled, sigint, next_id, now, errWritten,
                    outCount, fired, suspends, sigterms >>

\* destroy_cb (Quit): Gtk.main_quit(); Gtk.main() returns into the finally
DestroyCb ==
    /\ pc = "main"
    /\ pc' = "termwait"
    /\ last' = [ op |-> "destroy_cb", n |-> 0 ]
    /\ UNCHANGED histVars
    /\ UNCHANGED << fieldVars, bufVars, exitCode, report, childVars, next_id,
                    now, stdoutPipe, stderrPipe, errWritten, outCount, fired,
                    suspends, exitSeen,
                    sigterms >>

\* sigterm_handler, on SIGTERM or SIGINT: sys.exit() raises SystemExit where
\* the program is.  In __init__ (called outside run()'s try) and inside the
\* finally block nothing more runs; under Gtk.main() the finally block runs.
SigTerm ==
    /\ pc \in { "init", "main", "termwait", "waitpid" }
    /\ exitCode' = SysExitCode(0)
    /\ pc' = IF pc = "main" THEN "termwait" ELSE "done"
    /\ sigterms' = sigterms + 1
    /\ last' = [ op |-> "sigterm_handler", n |-> 0 ]
    /\ UNCHANGED histVars
    /\ UNCHANGED << fieldVars, bufVars, report, childVars, next_id, now,
                    stdoutPipe, stderrPipe, errWritten, outCount, fired,
                    suspends, exitSeen >>

\* os.kill(pid, sig): the exception it raises, "" when it raises none.  A
\* child that has exited and is not yet waited for still has its pid; once
\* it has been waited for the pid is gone.
os_kill(ws) == IF ws = "reaped" THEN "ProcessLookupError" ELSE ""

\* termwait without its 'except ProcessLookupError'
termwait_catches_none(exc) == FALSE

\* the 'except' clause of termwait
termwait_catches(exc) == exc = "ProcessLookupError"

\* termwait, first half: os.kill(pid, SIGINT).  An exception the 'except'
\* clause catches ends termwait; any other leaves run() and ends the process
\* with a traceback and exit status 1.
TermKill ==
    /\ pc = "termwait"
    /\ LET exc == os_kill(wstate)
       IN  IF exc = ""
           THEN /\ pc' = "waitpid"
                /\ sigint' = (wstate = "running")
                /\ UNCHANGED << exitCode, raised >>
           ELSE IF termwait_catches(exc)
           THEN /\ pc' = "done"
                /\ UNCHANGED << sigint, exitCode, raised >>
           ELSE /\ pc' = "done"
                /\ exitCode' = 1
                /\ raised' = Append(raised, << "termwait", exc >>)
                /\ UNCHANGED sigint
    /\ last' = [ op |-> "termwait_kill", n |-> 0 ]
    /\ UNCHANGED << eof, relay >>
    /\ UNCHANGED << fieldVars, bufVars, report, wstate, wstatus,
                    wEnabled, next_id, now, stdoutPipe, stderrPipe,
                    errWritten, outCount, fired, suspends, exitSeen,
                    sigterms >>

\* termwait, second half: os.waitpid(pid, 0) returns once the child has exited
TermWait ==
    /\ pc = "waitpid"
    /\ wstate = "zombie"
    /\ wstate' = "reaped"
    /\ pc' = "done"
    /\ last' = [ op |-> "termwait_waitpid", n |-> 0 ]
    /\ UNCHANGED histVars
    /\ UNCHANGED << fieldVars, bufVars, exitCode, report, wstatus, wEnabled,
                    sigint, next_id, now, stdoutPipe, stderrPipe, errWritten,
                    outCount, fired, suspends, exitSeen,
                    sigterms >>

\* relay_signal_handler: os.kill(self.process[0], signal)
relay_signal_handler(s) ==
    [ s EXCEPT !.usr1 = IF wstate = "running" THEN @ + 1 ELSE @ ]

\* a SIGUSR1 arrives at the supervising process.  Until __init__ installs
\* relay_signal_handler (line 198) the signal has its default action, which
\* ends the process (exit status 128 + 10 as a shell reports it).  Afterwards
\* the handler passes the signal on; os.kill raises ProcessLookupError once
\* the child has been waited for, and the exception leaves run().
RelaySignal ==
    /\ pc \in { "init", "main", "termwait", "waitpid" }
    /\ relay.recv < MaxRelay
    /\ IF pc = "init"
       THEN /\ pc' = "done"
            /\ exitCode' = 128 + 10
            /\ relay' = [ relay EXCEPT !.recv = @ + 1 ]
            /\ UNCHANGED << usr1, raised >>
       ELSE IF os_kill(wstate) = ""
       THEN /\ usr1' = relay_signal_handler(Self).usr1
            /\ relay' = [ recv |-> relay.recv + 1, fwd |-> relay.fwd + 1 ]
            /\ UNCHANGED << pc, exitCode, raised >>
       ELSE /\ relay' = [ relay EXCEPT !.recv = @ + 1 ]
            /\ raised' = Append(raised,
                                << "relay_signal_handler", os_kill(wstate) >>)
            /\ pc' = IF pc = "main" THEN "termwait" ELSE "done"
            /\ exitCode' = 1
            /\ UNCHANGED usr1
    /\ last' = [ op |-> "relay_signal_handler", n |-> 0 ]
    /\ UNCHANGED << status, temperature, period, location, suspend_timer,
                    toggle_active, errors, timers, sent, lines, bufVars,
                    report, childVars, next_id, now, stdoutPipe, stderrPipe,
                    errWritten, outCount, fired, suspends, exitSeen, sigterms,
                    eof >>

---------------------------------------------------------------------------
(* The control surface: the callbacks of the status icon and of its menu,   *)
(* and the suspend timer.                                                   *)

\* the menu's 'Suspend for' entries
SuspendMinutes == { 30, 60, 120 }

\* GLib.timeout_add_seconds(secs, self.reenable_cb), its id kept in
\* self.suspend_timer
timeout_add_seconds(s, secs) ==
    [ s EXCEPT !.timers = @ \cup { [ id |-> next_id, deadline |-> now + secs ] },
               !.suspend_timer = next_id ]

\* suspend_cb without its call of remove_suspend_timer
suspend_cb_keeps(s, minutes) ==
    timeout_add_seconds(
        IF is_enabled(s) THEN child_toggle_status(s) ELSE s, minutes * 60)

suspend_cb(s, minutes) ==
    timeout_add_seconds(
        remove_suspend_timer(IF is_enabled(s) THEN child_toggle_status(s) ELSE s),
        minutes * 60)

\* reenable_cb without its test of is_enabled
reenable_cb_always(s) == child_toggle_status(s)

reenable_cb(s) == IF ~is_enabled(s) THEN child_toggle_status(s) ELSE s

\* toggle_cb that also records the state it asks for
toggle_cb_records(s) ==
    [ child_toggle_status(remove_suspend_timer(s)) EXCEPT !.status = ~@ ]

\* toggle_cb without its call of remove_suspend_timer
toggle_cb_keeps(s) == child_toggle_status(s)

toggle_cb(s) == child_toggle_status(remove_suspend_timer(s))

\* a 'Suspend for' entry is activated
SuspendCb(minutes) ==
    /\ pc = "main"
    /\ minutes \in SuspendMinutes
    /\ next_id <= MaxTimers
    /\ suspend_cb(Self, minutes).sent <= MaxSent
    /\ Commit(suspend_cb(Self, minutes))
    /\ next_id' = next_id + 1
    /\ suspends' = Append(suspends, << now, minutes, next_id >>)
    /\ last' = [ op |-> "suspend_cb", n |-> minutes ]
    /\ UNCHANGED histVars
    /\ UNCHANGED << bufVars, procVars, childVars, now, stdoutPipe, stderrPipe,
                    errWritten, outCount, fired, exitSeen,
                    sigterms >>

\* a timeout source is due and the main loop dispatches it; reenable_cb
\* returns None, so GLib destroys the source
ReenableCb ==
    /\ pc = "main"
    /\ \E t \in timers :
         /\ t.deadline <= now
         /\ reenable_cb(Self).sent <= MaxSent
         /\ Commit([ reenable_cb(Self) EXCEPT !.timers = @ \ { t } ])
         /\ fired' = fired \cup { t.id }
         /\ last' = [ op |-> "reenable_cb", n |-> t.id ]
    /\ UNCHANGED histVars
    /\ UNCHANGED << bufVars, procVars, childVars, next_id, now, stdoutPipe,
                    stderrPipe, errWritten, outCount, suspends, exitSeen,
                    sigterms >>

\* the status icon is activated
ToggleCb ==
    /\ pc = "main"
    /\ sent < MaxSent
    /\ Commit(toggle_cb(Self))
    /\ last' = [ op |-> "toggle_cb",
                 n |-> IF last.op = "toggle_cb" THEN last.n + 1 ELSE 1 ]
    /\ UNCHANGED histVars
    /\ UNCHANGED << bufVars, procVars, childVars, next_id, now, stdoutPipe,
                    stderrPipe, errWritten, outCount, fired, suspends, exitSeen,
                    sigterms >>

\* the user clicks the 'Enabled' check item: Gtk flips its check state and
\* runs the 'activate' handler
ToggleItemClick ==
    /\ pc = "main"
    /\ sent < MaxSent
    /\ Commit(toggle_item_cb([ Self EXCEPT !.toggle_active = ~@ ]))
    /\ last' = [ op |-> "toggle_item_cb", n |-> 0 ]
    /\ UNCHANGED histVars
    /\ UNCHANGED << bufVars, procVars, childVars, next_id, now, stdoutPipe,
                    stderrPipe, errWritten, outCount, fired, suspends, exitSeen,
                    sigterms >>

\* time passes
Tick ==
    /\ pc = "main"
    /\ now < MaxTicks * TickSeconds
    /\ now' = now + TickSeconds
    /\ last' = [ op |-> "Tick", n |-> 0 ]
    /\ UNCHANGED histVars
    /\ UNCHANGED << fieldVars, bufVars, procVars, childVars, next_id,
                    stdoutPipe, stderrPipe, errWritten, outCount, fired,
                    suspends, exitSeen,
                    sigterms >>

---------------------------------------------------------------------------

\* the state when Gtk.main() is entered and nothing has happened yet
InitMain == Spawned /\ pc = "main"

(* The whole program. *)
Next ==
    \/ \E l \in ProtocolLines : ChildPrint(l)
    \/ \E b \in ErrBytes : ChildPrintErr(b)
    \/ ChildHandleUsr1
    \/ \E ws \in ExitStatuses : ChildExit(ws)
    \/ InitDone
    \/ \E k \in StdoutReadSizes : ChildDataCbOut(k)
    \/ ChildDataCbErr
    \/ ChildCb
    \/ DestroyCb
    \/ SigTerm
    \/ TermKill
    \/ TermWait
    \/ \E m \in SuspendMinutes : SuspendCb(m)
    \/ ReenableCb
    \/ ToggleCb
    \/ ToggleItemClick
    \/ Tick
    \/ RelaySignal
    \/ ChildDataCbOutEof
    \/ ChildDataCbErrEof

Spec == Init /\ [][Next]_vars

(* The two streams alone, carrying arbitrary bytes: line reassembly. *)
NextIO ==
    \/ \E l \in RawLines : ChildPrint(l)
    \/ \E b \in ErrBytes : ChildPrintErr(b)
    \/ \E k \in StdoutReadSizes : ChildDataCbOut(k)
    \/ ChildDataCbErr

SpecIO == InitMain /\ [][NextIO]_vars

(* The child's verbose output and its decoding, with the suspend menu in    *)
(* use.                                                                     *)
NextOut ==
    \/ \E l \in ProtocolLines : ChildPrint(l)
    \/ \E k \in StdoutReadSizes : ChildDataCbOut(k)
    \/ SuspendCb(30)

SpecOut == InitMain /\ [][NextOut]_vars

(* Stdout carrying text that is not ASCII, to the child's exit.             *)
NextEnc ==
    \/ \E l \in EncodedLines : ChildPrint(l)
    \/ \E k \in StdoutReadSizes : ChildDataCbOut(k)
    \/ \E ws \in ExitStatuses : ChildExit(ws)
    \/ ChildCb

SpecEnc == InitMain /\ [][NextEnc]_vars

(* The life of the two processes: start, stderr, exit, signals, shutdown.   *)
NextProc ==
    \/ \E b \in ErrBytes : ChildPrintErr(b)
    \/ \E ws \in ExitStatuses : ChildExit(ws)
    \/ InitDone
    \/ ChildDataCbErr
    \/ ChildCb
    \/ DestroyCb
    \/ SigTerm
    \/ TermKill
    \/ TermWait

SpecProc == Init /\ [][NextProc]_vars

(* The same, on a system whose poll reports end of file as readable.        *)
NextEof ==
    \/ NextProc
    \/ ChildPrint(StatusLine(wEnabled))
    \/ ChildDataCbOut(StdoutFlushed)
    \/ ChildDataCbOutEof
    \/ ChildDataCbErrEof

SpecEof == Init /\ [][NextEof]_vars

(* Signals from outside to the supervising process, from its start on.      *)
NextRelay ==
    \/ InitDone
    \/ RelaySignal
    \/ ToggleCb
    \/ ChildHandleUsr1
    \/ \E k \in StdoutReadSizes : ChildDataCbOut(k)
    \/ \E ws \in ExitStatuses : ChildExit(ws)
    \/ ChildCb
    \/ DestroyCb
    \/ TermKill
    \/ TermWait

SpecRelay == Init /\ [][NextRelay]_vars

(* The control surface against a child that reports its state on start and  *)
(* after each SIGUSR1.                                                      *)
NextCtl ==
    \/ ChildPrint(StatusLine(wEnabled))
    \/ ChildHandleUsr1
    \/ ChildDataCbOut(StdoutFlushed)
    \/ \E m \in SuspendMinutes : SuspendCb(m)
    \/ ReenableCb
    \/ ToggleCb
    \/ ToggleItemClick
    \/ Tick

SpecCtl == InitMain /\ [][NextCtl]_vars

(* The suspend menu alone: no toggle and no relayed signal.                 *)
NextSuspend ==
    \/ ChildPrint(StatusLine(wEnabled))
    \/ ChildHandleUsr1
    \/ ChildDataCbOut(StdoutFlushed)
    \/ \E m \in SuspendMinutes : SuspendCb(m)
    \/ ReenableCb
    \/ Tick

SpecSuspend == InitMain /\ [][NextSuspend]_vars

(* The control surface and the relayed signal together.                     *)
NextMirror ==
    \/ ChildPrint(StatusLine(wEnabled))
    \/ ChildHandleUsr1
    \/ ChildDataCbOut(StdoutFlushed)
    \/ SuspendCb(30)
    \/ ReenableCb
    \/ ToggleCb
    \/ ToggleItemClick
    \/ RelaySignal
    \/ Tick

SpecMirror == InitMain /\ [][NextMirror]_vars

---------------------------------------------------------------------------
(* Properties.                                                              *)

\* the fields as __init__ leaves them
Fresh ==
    [ status |-> FALSE, temperature |-> 0, period |-> "Unknown",
      location |-> << "0.0", "0.0" >>, suspend_timer |-> 0,
      toggle_active |-> FALSE, errors |-> "", timers |-> {}, usr1 |-> 0,
      sent |-> 0, lines |-> << >> ]

\* the lines a step has handed to child_stdout_line_cb
Delivered == { lines'[i] : i \in (Len(lines) + 1)..Len(lines') }

LastWith(prefix) ==
    LET hits == { i \in 1..Len(lines) :
                    /\ Len(lines[i]) >= Len(prefix)
                    /\ Take(lines[i], Len(prefix)) = prefix }
    IN  IF hits = {} THEN 0
        ELSE CHOOSE i \in hits : \A j \in hits : j <= i

\* C2: each field is the value of the last line carrying its key, or its
\* default when no such line was processed: enabled = (value # "Disabled"),
\* the temperature is the integer before the K, the period is the value, the
\* location is the two components around ", ".  Lines with other keys,
\* before, between or after, make no difference.
C2_LastLineWins ==
    LET st == LastWith("Status: ")
        te == LastWith("Color temperature: ")
        pe == LastWith("Period: ")
        lo == LastWith("Location: ")
    IN  /\ status = IF st = 0 THEN FALSE ELSE lines[st] # "Status: Disabled"
        /\ temperature = IF te = 0 THEN 0 ELSE 4500
        /\ period = IF pe = 0 THEN "Unknown"
                    ELSE IF lines[pe] = "Period: Night" THEN "Night"
                    ELSE "Daytime"
        /\ location = IF lo = 0 THEN << "0.0", "0.0" >>
                      ELSE << "51.50", "-0.12" >>

\* a key has been reported twice with different values, and lines with
\* two different keys have been processed
C2_Witness ==
    \/ /\ lines = << "Period: Night", "Period: Daytime" >>
       /\ period = "Daytime"
    \/ /\ lines = << "Color temperature: 4500K", "Status: Enabled" >>
       /\ temperature = 4500
       /\ status

\* lines that are no 'Key: Value', and a line with a key that is none of
\* the four
NonEventLines == { "garbage line without colon", "", "Brightness: 1.00" }

\* C3: a read that delivers only lines that are not 'Key: Value' or whose
\* key is unknown leaves the recorded state, the check item, the suspend
\* timer and the signals sent as they were.
C3_NoEvent ==
    [][ (last'.op = "child_data_cb" /\ Delivered \subseteq NonEventLines)
          => UNCHANGED << status, temperature, period, location,
                          toggle_active, suspend_timer, timers, sent, usr1 >>
      ]_vars

\* with the child reported enabled and a suspend timer pending, a line with
\* an unknown key has been processed
C3_Witness ==
    /\ last.op = "child_data_cb"
    /\ lines = << "Status: Enabled", "Brightness: 1.00" >>
    /\ status
    /\ timers # {}
    /\ sent = 1

\* the most recent suspend_cb call
LastSuspend == suspends[Len(suspends)]

\* C4: at most one timeout source is pending; a pending one is the source
\* of the most recent suspend_cb call, due that call's minutes after it, and
\* a source that fires is that one too: a source replaced by a later suspend
\* request never fires.
C4_OneTimer ==
    /\ Cardinality(timers) <= 1
    /\ \A t \in timers :
         /\ suspends # << >>
         /\ t.id = LastSuspend[3]
         /\ t.id = suspend_timer
         /\ t.deadline = LastSuspend[1] + LastSuspend[2] * 60
    /\ last.op = "reenable_cb" => last.n = LastSuspend[3]

\* suspend for 30 minutes and at once for 60: an hour later the second
\* source has fired and the first never has
C4_Witness ==
    /\ suspends = << << 0, 30, 1 >>, << 0, 60, 2 >> >>
    /\ now = 60 * 60
    /\ fired = { 2 }
    /\ timers = {}
    /\ last.op = "reenable_cb"

\* C5: suspend_cb called while the recorded state is disabled sends no
\* signal and arms a source due after its minutes; reenable_cb sends one
\* signal if the recorded state is disabled, and if it is enabled sends none
\* and changes no field.
C5_SuspendAndReenable ==
    [][ /\ (last'.op = "suspend_cb" /\ ~status)
            => /\ sent' = sent
               /\ usr1' = usr1
               /\ [ id |-> suspend_timer', deadline |-> now + last'.n * 60 ]
                    \in timers'
        /\ (last'.op = "reenable_cb" /\ ~status)
            => sent' = sent + 1
        /\ (last'.op = "reenable_cb" /\ status)
            => UNCHANGED << status, temperature, period, location,
                            toggle_active, suspend_timer, sent, usr1 >>
      ]_vars

\* a suspend request made while the recorded state was disabled sent
\* nothing, and its timer, firing with the state still disabled, sent the
\* one signal
C5_Witness ==
    /\ last.op = "reenable_cb"
    /\ Len(suspends) = 1
    /\ lines = << >>
    /\ ~status
    /\ sent = 1

\* C8: toggle_cb sends one signal per call and leaves the recorded state as
\* it is; the recorded enabled flag changes only in a read that delivers a
\* Status line.
C8_ToggleIsRequest ==
    [][ /\ last'.op = "toggle_cb"
            => /\ sent' = sent + 1
               /\ UNCHANGED << status, temperature, period, location >>
        /\ status' # status
            => /\ last'.op = "child_data_cb"
               /\ Delivered \cap { "Status: Enabled", "Status: Disabled" } # {}
      ]_vars

\* toggle_cb has run twice in a row, no line of the child read in between
\* or before, and two signals are sent
C8_Witness ==
    /\ last.op = "toggle_cb"
    /\ last.n = 2
    /\ sent = 2
    /\ lines = << >>
    /\ ~status

\* C9: a toggle that sends the signal leaves no timeout source pending and
\* none recorded, and a source that fires is the one recorded in
\* suspend_timer, so it has been armed after any such toggle.
C9_ToggleCancels ==
    [][ /\ (last'.op \in { "toggle_cb", "toggle_item_cb" } /\ sent' > sent)
            => timers' = {} /\ suspend_timer' = 0
        /\ last'.op = "reenable_cb"
            => last'.n = suspend_timer /\ last'.n = LastSuspend[3]
      ]_vars

\* a suspend timer was armed and a toggle removed it: its time has come and
\* it has not fired and is not pending
C9_Witness ==
    /\ Len(suspends) = 1
    /\ now >= suspends[1][1] + suspends[1][2] * 60
    /\ fired = {}
    /\ timers = {}
    /\ suspend_timer = 0

\* C6 as stated: once the child has exited and the supervising process has
\* ended (no SIGTERM or SIGINT having ended it), status 0 went with no report
\* and exit code 0, any other status with a report and a non-zero exit code.
C6_EveryExitClassified ==
    (pc = "done" /\ wstate # "running" /\ sigterms = 0)
        => IF wstatus = 0
           THEN report = << >> /\ exitCode = 0
           ELSE report # << >> /\ exitCode # 0

\* C6, amended: child_cb runs at most once; called with status 0 it shows no
\* report and the process goes on to end with code 0; called with any other
\* status it shows one report and the process ends with a non-zero code.  An
\* exit child_cb is not called with is not classified: no report, code 0.
C6_ExitCallbackClassifies ==
    /\ Len(exitSeen) <= 1
    /\ \A i \in DOMAIN exitSeen :
         IF exitSeen[i] = 0
         THEN /\ report = << >>
              /\ pc \in { "termwait", "waitpid", "done" }
              /\ pc = "done" => exitCode = 0
         ELSE /\ Len(report) = 1
              /\ pc = "done"
              /\ exitCode # 0
    /\ exitSeen = << >>
         => /\ report = << >>
            /\ pc = "done" => exitCode = 0

\* the child wrote a line to stderr and exited with code 1: child_cb showed
\* the report and the process ended with code 255
C6_Witness ==
    /\ exitSeen = << 256 >>
    /\ report = << ErrorMarkup("er\n") >>
    /\ pc = "done"
    /\ exitCode = 255

\* C7 as stated: the text of the failure report is what the child wrote to
\* stderr.
C7_ReportIsStderr ==
    report # << >> => report[1] = ErrorMarkup(errWritten)

\* C10 as stated: the supervising process has not ended while the child is
\* still running.
C10_NoOrphan ==
    pc = "done" => wstate # "running"

\* C11: termwait ends without an exception whatever the child's condition
\* when it is called, running, exited and not waited for, or waited for by
\* the child watch, and when it has ended the child is not running: the
\* step that ends termwait raises nothing and leaves the exit code and the
\* reports as they were, and os.waitpid is only ever called on a child that
\* has not been waited for.
C11_TermwaitSucceeds ==
    [][ /\ (last'.op \in { "termwait_kill", "termwait_waitpid" } /\ pc' = "done")
            => /\ wstate' # "running"
               /\ raised' = raised
               /\ exitCode' = exitCode
               /\ report' = report
        /\ pc' = "waitpid" => wstate' # "reaped"
      ]_vars

\* child_cb has waited for a child that exited with status 0 and left the
\* main loop; termwait's os.kill then found no process and termwait ended
C11_Witness ==
    /\ last.op = "termwait_kill"
    /\ pc = "done"
    /\ wstate = "reaped"
    /\ exitSeen = << 0 >>
    /\ exitCode = 0

\* C12 as stated: no read callback and no exit drain has ended in a decoding
\* error.
C12_DecodeNeverFatal ==
    \A i \in DOMAIN raised : raised[i][2] # "UnicodeDecodeError"

\* C13 as stated: every SIGUSR1 the supervising process has received since
\* the child was spawned has been passed on to the child's pid.
C13_RelayDelivers ==
    relay.fwd = relay.recv

\* C14 as stated: a timer recorded in suspend_timer is pending; once the
\* timer has fired none is recorded, so no later remove_suspend_timer calls
\* GLib.source_remove for a source that has fired.
C14_FiredMeansIdle ==
    suspend_timer # 0
        => /\ suspend_timer \notin fired
           /\ \E t \in timers : t.id = suspend_timer

RECURSIVE Joined(_)
\* the lines of a sequence, each followed by a newline
Joined(seq) ==
    IF seq = << >> THEN "" ELSE Head(seq) \o NL \o Joined(Tail(seq))

\* C15: a read on stdout hands the complete lines of its buffer and the new
\* bytes to child_stdout_line_cb, keeps the rest in input_buffer and leaves
\* self.errors and error_buffer alone; a read on stderr appends the complete
\* lines of its buffer and the new bytes, a newline after each, to
\* self.errors, keeps the rest in error_buffer and leaves the recorded
\* state, the lines decoded and input_buffer alone.
C15_StreamsApart ==
    [][ /\ last'.op = "child_data_cb"
            => /\ Joined(SubSeq(lines', Len(lines) + 1, Len(lines')))
                     \o input_buffer'
                   = input_buffer \o Drop(stdoutFed', Len(stdoutFed))
               /\ FindNL(input_buffer') = 0
               /\ UNCHANGED << errors, error_buffer >>
        /\ last'.op = "child_data_cb_err"
            => /\ errors' \o error_buffer'
                   = errors \o error_buffer \o Drop(stderrFed', Len(stderrFed))
               /\ FindNL(error_buffer') = 0
               /\ UNCHANGED << lines, input_buffer, status, temperature,
                               period, location, toggle_active >>
      ]_vars

\* with a fragment of a stdout line waiting in input_buffer, a read on
\* stderr has completed a line begun in an earlier read: the line is in
\* self.errors and the stdout fragment is where it was
C15_Witness ==
    /\ last.op = "child_data_cb_err"
    /\ last.n = 1
    /\ input_buffer # ""
    /\ errors = "e\n"
    /\ lines = << >>

\* C16 as stated: once a read on a stream has returned zero bytes, no read
\* callback runs for that stream.
C16_NoCallbackAfterEof ==
    [][ /\ last'.op \in { "child_data_cb", "child_data_cb_eof" }
            => "stdout" \notin eof
        /\ last'.op \in { "child_data_cb_err", "child_data_cb_err_eof" }
            => "stderr" \notin eof
      ]_vars

C18_SuspendDisables ==
    (sent >= 1 /\ usr1 = 0 /\ fired = {}) => ~wEnabled

\* no signal is on its way to the child and all the child has written to
\* stdout has been read and split into lines
Quiescent == usr1 = 0 /\ stdoutPipe = "" /\ input_buffer = ""

\* C19 as stated: in a quiescent state the recorded enabled flag is the
\* child's enabled state.
C19_MirrorAtQuiescence ==
    Quiescent => status = wEnabled

\* C19, amended: in a quiescent state in which a Status line of the child
\* has been processed, the recorded enabled flag is the child's enabled
\* state.
C19_MirrorAfterFirstReport ==
    (Quiescent /\ LastWith("Status: ") # 0) => status = wEnabled

\* the child has reported its state on start, the status icon has asked for
\* one toggle and a relayed signal for another, and all three reports have
\* been processed
C19_Witness ==
    /\ Quiescent
    /\ sent = 1
    /\ relay.fwd = 1
    /\ Len(lines) = 3
    /\ status = wEnabled
    /\ status

\* C20: a read of the child's stdout, whatever lines it delivers, sends no
\* signal and leaves the suspend timer as it is, and after it the check item
\* shows the recorded state; a click on the check item sends one signal if
\* the check state asked for differs from the recorded state and none if it
\* does not.
C20_NoFeedback ==
    [][ /\ last'.op = "child_data_cb"
            => /\ UNCHANGED << sent, usr1, timers, suspend_timer >>
               /\ Delivered \cap { "Status: Enabled", "Status: Disabled" } # {}
                    => toggle_active' = status'
        /\ last'.op = "toggle_item_cb"
            => sent' = IF toggle_active' # status THEN sent + 1 ELSE sent
      ]_vars

\* a suspend request has sent the signal and armed the timer; the child's
\* 'Status: Disabled' has been processed, which unchecked the item and ran
\* its handler: the timer is still pending and no second signal was sent
C20_Witness ==
    /\ last.op = "child_data_cb"
    /\ lines = << "Status: Enabled", "Status: Disabled" >>
    /\ ~status
    /\ ~toggle_active
    /\ timers # {}
    /\ suspend_timer # 0
    /\ sent = 1

=============================================================================
